---- MODULE Spec2Model ----
(***************************************************************************)
(* Model of the smart_resume_parser pipeline (parser/utils.py,             *)
(* parser/extractor.py, parser/text_reader.py, app.py).                    *)
(*                                                                         *)
(* A Python str is modelled as a sequence of one-character strings, so     *)
(* that strip, split, join, lower and the regular expressions are computed *)
(* character by character as the code computes them.                       *)
(***************************************************************************)
EXTENDS Integers, Sequences, FiniteSets, TLC

VARIABLES
    op,               \* which entry point this behaviour runs
    pc,               \* position inside the entry point
    text,             \* the str argument of the entry point
    lines,            \* split_into_sections: text.split("\n")
    i,                \* index of the next element of the running for loop
    sections,         \* split_into_sections: the dict, in insertion order
    current_section,  \* split_into_sections: current_section
    buffer,           \* split_into_sections: buffer (a list of lines)
    blocks,           \* parse_experience_section: section_text.split("\n\n")
    entries,          \* parse_experience_section: entries
    cleaned,          \* parse_resume: cleaned
    experience_text,  \* parse_resume: experience_text
    uploaded_files,   \* main: uploaded_files, a list of <<file.name, decoded text>>
    parsed_results,   \* main: parsed_results
    flat_rows,        \* main: flat_rows
    errors,           \* main: the file names reported through st.error
    result            \* the value the entry point returns

vars == <<op, pc, text, lines, i, sections, current_section, buffer, blocks, entries, cleaned,
          experience_text, uploaded_files, parsed_results, flat_rows, errors, result>>

splitVars == <<lines, i, sections, current_section, buffer>>
expVars == <<blocks, entries>>
resumeVars == <<cleaned, experience_text>>
mainVars == <<uploaded_files, parsed_results, flat_rows, errors>>

----------------------------------------------------------------------------
(* Characters and Python's str primitives *)

NL == "\n"
CR == "\r"
TAB == "\t"
SP == " "

\* The absent value (Python's None); no str equals it.
None == <<"None">>

UpperChars == <<"A","B","C","D","E","F","G","H","I","J","K","L","M",
                "N","O","P","Q","R","S","T","U","V","W","X","Y","Z">>
LowerChars == <<"a","b","c","d","e","f","g","h","i","j","k","l","m",
                "n","o","p","q","r","s","t","u","v","w","x","y","z">>
Digits == {"0","1","2","3","4","5","6","7","8","9"}

Range(f) == {f[k] : k \in DOMAIN f}
SetMin(S) == CHOOSE x \in S : \A y \in S : x <= y
SetMax(S) == CHOOSE x \in S : \A y \in S : x >= y

IsUpper(c) == c \in Range(UpperChars)
IsLower(c) == c \in Range(LowerChars)
IsLetter(c) == IsUpper(c) \/ IsLower(c)
IsDigit(c) == c \in Digits

\* str.lower on one character, and on a str
LowerChar(c) ==
    IF IsUpper(c) THEN LowerChars[CHOOSE k \in 1..26 : UpperChars[k] = c] ELSE c
lower(s) == [k \in 1..Len(s) |-> LowerChar(s[k])]

\* the characters str.strip() removes and the regex class \s matches
IsSpace(c) == c \in {SP, TAB, NL, CR}

\* str.strip()
strip(s) ==
    LET keep == {k \in 1..Len(s) : ~IsSpace(s[k])}
    IN  IF keep = {} THEN <<>> ELSE SubSeq(s, SetMin(keep), SetMax(keep))

\* str.split(c) for a one-character separator c
split(s, c) ==
    LET P == {k \in 1..Len(s) : s[k] = c}
        n == Cardinality(P)
        cut == [k \in 0..(n + 1) |->
                  IF k = 0 THEN 0
                  ELSE IF k = n + 1 THEN Len(s) + 1
                  ELSE CHOOSE p \in P : Cardinality({q \in P : q < p}) = k - 1]
    IN  [k \in 1..(n + 1) |-> SubSeq(s, cut[k - 1] + 1, cut[k] - 1)]

\* sep.join(list)
RECURSIVE join(_, _)
join(ss, sep) ==
    IF ss = <<>> THEN <<>>
    ELSE IF Len(ss) = 1 THEN ss[1]
    ELSE ss[1] \o sep \o join(Tail(ss), sep)

\* s.startswith(p) at offset k (1-based), s.endswith(p)
StartsAt(s, k, p) ==
    /\ k + Len(p) - 1 <= Len(s)
    /\ \A j \in 1..Len(p) : s[k + j - 1] = p[j]
endswith(s, p) == Len(p) <= Len(s) /\ StartsAt(s, Len(s) - Len(p) + 1, p)

\* A Python dict, kept in insertion order as a sequence of <<key, value>>
DictHas(d, k) == \E n \in 1..Len(d) : d[n][1] = k
DictGet(d, k, default) ==
    IF DictHas(d, k) THEN d[CHOOSE n \in 1..Len(d) : d[n][1] = k][2] ELSE default
DictSet(d, k, v) ==
    IF DictHas(d, k)
    THEN [n \in 1..Len(d) |-> IF d[n][1] = k THEN <<k, v>> ELSE d[n]]
    ELSE Append(d, <<k, v>>)

\* the characters of s at the indices K, in order
Pick(s, K) ==
    [n \in 1..Cardinality(K) |->
        s[CHOOSE k \in K : Cardinality({j \in K : j < k}) = n - 1]]

----------------------------------------------------------------------------
(* parser/utils.py: clean_text *)

\* text.replace("\r", "\n")
ReplaceCR(s) == [k \in 1..Len(s) |-> IF s[k] = CR THEN NL ELSE s[k]]

\* re.sub(r"\n{2,}", "\n\n", text): of a run of newlines the first two stay
CollapseNewlines(s) ==
    Pick(s, {k \in 1..Len(s) :
                ~(k > 2 /\ s[k] = NL /\ s[k - 1] = NL /\ s[k - 2] = NL)})

\* re.sub(r"[ \t]+", " ", text): a run of spaces and tabs becomes one space
IsBlankChar(c) == c \in {SP, TAB}
CollapseSpaces(s) ==
    LET first == {k \in 1..Len(s) : ~(k > 1 /\ IsBlankChar(s[k]) /\ IsBlankChar(s[k - 1]))}
        kept == Pick(s, first)
    IN  [k \in 1..Len(kept) |-> IF IsBlankChar(kept[k]) THEN SP ELSE kept[k]]

clean_text(t) == strip(CollapseSpaces(CollapseNewlines(ReplaceCR(t))))

----------------------------------------------------------------------------
(* parser/utils.py: SECTION_REGEX and split_into_sections *)

Education == <<"e","d","u","c","a","t","i","o","n">>
Experience == <<"e","x","p","e","r","i","e","n","c","e">>
WorkExperience == <<"w","o","r","k"," ">> \o Experience
ProfessionalExperience == <<"p","r","o","f","e","s","s","i","o","n","a","l"," ">> \o Experience
Skills == <<"s","k","i","l","l","s">>
TechnicalSkills == <<"t","e","c","h","n","i","c","a","l"," ">> \o Skills
Projects == <<"p","r","o","j","e","c","t","s">>
Certifications == <<"c","e","r","t","i","f","i","c","a","t","i","o","n","s">>
Summary == <<"s","u","m","m","a","r","y">>
Profile == <<"p","r","o","f","i","l","e">>
Header == <<"h","e","a","d","e","r">>

\* the alternatives of SECTION_REGEX's group 1
SectionNames == {Education, WorkExperience, Experience, ProfessionalExperience,
                 Skills, TechnicalSkills, Projects, Certifications, Summary, Profile}

\* the tail \s*:?\s*$ of SECTION_REGEX
HeadingTail(r) ==
    /\ \A k \in 1..Len(r) : IsSpace(r[k]) \/ r[k] = ":"
    /\ Cardinality({k \in 1..Len(r) : r[k] = ":"}) <= 1

\* SECTION_REGEX.match(s): the names whose (case-insensitive) text starts s
\* with only \s*:?\s* after it.  No name is a prefix of another, so at most one.
SectionMatches(s) ==
    {h \in SectionNames :
        /\ Len(h) <= Len(s)
        /\ lower(SubSeq(s, 1, Len(h))) = h
        /\ HeadingTail(SubSeq(s, Len(h) + 1, Len(s)))}
IsHeading(line) == SectionMatches(strip(line)) # {}
\* match.group(1).lower()
HeadingName(line) == CHOOSE h \in SectionMatches(strip(line)) : TRUE

\* a flush_buffer that keeps the first text stored under a key
flush_buffer_first_wins(secs, sec_name, buf) ==
    IF buf # <<>> /\ ~DictHas(secs, sec_name)
    THEN DictSet(secs, sec_name, strip(join(buf, <<NL>>)))
    ELSE secs
\* flush_buffer(sec_name): writes only when the list buffer is non-empty
flush_buffer(secs, sec_name, buf) ==
    IF buf # <<>> THEN DictSet(secs, sec_name, strip(join(buf, <<NL>>))) ELSE secs

\* one iteration of "for line in lines" on the locals (sections, current_section, buffer)
SplitLineNoReset(st, line) ==
    IF IsHeading(line)
    THEN [sections |-> flush_buffer(st.sections, st.current_section, st.buffer),
          current_section |-> HeadingName(line),
          buffer |-> st.buffer]
    ELSE [st EXCEPT !.buffer = Append(@, line)]
SplitLine(st, line) ==
    IF IsHeading(line)
    THEN [sections |-> flush_buffer(st.sections, st.current_section, st.buffer),
          current_section |-> HeadingName(line),
          buffer |-> <<>>]
    ELSE [st EXCEPT !.buffer = Append(@, line)]

SplitLocals == [sections |-> <<>>, current_section |-> Header, buffer |-> <<>>]

RECURSIVE SplitLoop(_, _, _)
SplitLoop(st, ls, k) ==
    IF k > Len(ls) THEN st ELSE SplitLoop(SplitLine(st, ls[k]), ls, k + 1)

\* split_into_sections(text) as a function of its argument
split_into_sections(t) ==
    LET st == SplitLoop(SplitLocals, split(t, NL), 1)
    IN  flush_buffer(st.sections, st.current_section, st.buffer)

----------------------------------------------------------------------------
(* parser/extractor.py: PHONE_REGEX and extract_phone *)

\* the class [\d\- ]
IsPhoneChar(c) == IsDigit(c) \/ c = "-" \/ c = SP

\* the least index of the set stop, or n + 1: where a greedy X* ends
FirstStop(stop, n) == IF stop = {} THEN n + 1 ELSE SetMin(stop)
\* [\d\- ]*, [a-z]* (re.IGNORECASE) and \s* from k: the index after the run
SkipPhoneChars(s, k) == FirstStop({j \in k..Len(s) : ~IsPhoneChar(s[j])}, Len(s))
SkipLetters(s, k) == FirstStop({j \in k..Len(s) : ~IsLetter(s[j])}, Len(s))
SkipSpaces(s, k) == FirstStop({j \in k..Len(s) : ~IsSpace(s[j])}, Len(s))

\* a PHONE_REGEX whose middle is {6,}
PhoneEndShort(s, d) ==
    LET runEnd == SkipPhoneChars(s, d + 1) - 1
        ends == {e \in (d + 7)..runEnd : IsDigit(s[e])}
    IN  IF ends = {} THEN 0 ELSE SetMax(ends)
\* \d[\d\- ]{7,}\d with its first digit at d: the greedy middle takes the
\* whole run of class characters and gives back to the last digit that
\* leaves it 7 or more; the index of the closing digit, or 0
PhoneEnd(s, d) ==
    LET runEnd == SkipPhoneChars(s, d + 1) - 1
        ends == {e \in (d + 8)..runEnd : IsDigit(s[e])}
    IN  IF ends = {} THEN 0 ELSE SetMax(ends)

\* PHONE_REGEX matched at k: \+? takes a "+" when there is one
PhoneMatchEnd(s, k) ==
    IF s[k] = "+" THEN (IF k < Len(s) /\ IsDigit(s[k + 1]) THEN PhoneEnd(s, k + 1) ELSE 0)
    ELSE IF IsDigit(s[k]) THEN PhoneEnd(s, k)
    ELSE 0

\* PHONE_REGEX.search(text); match.group(0) if match else None
extract_phone(t) ==
    LET starts == {k \in 1..Len(t) : PhoneMatchEnd(t, k) # 0}
    IN  IF starts = {} THEN None
        ELSE SubSeq(t, SetMin(starts), PhoneMatchEnd(t, SetMin(starts)))

----------------------------------------------------------------------------
(* parser/extractor.py: DATE_RANGE_REGEX and parse_experience_section *)

\* the en dash of the class [-\u2013], written as one character
EnDash == "en-dash"
IsDash(c) == c = "-" \/ c = EnDash

\* the index of the first occurrence of p in s (p non-empty), or 0
Find(s, p) ==
    LET at == {k \in 1..Len(s) : StartsAt(s, k, p)}
    IN  IF at = {} THEN 0 ELSE SetMin(at)

\* str.split(sep) for a separator of several characters
RECURSIVE SplitStr(_, _)
SplitStr(s, sep) ==
    LET k == Find(s, sep)
    IN  IF k = 0 THEN <<s>>
        ELSE <<SubSeq(s, 1, k - 1)>> \o SplitStr(SubSeq(s, k + Len(sep), Len(s)), sep)

\* the alternatives of the groups start_month and end_month, in the
\* pattern's order and in lower case (the pattern is compiled re.IGNORECASE)
StartMonths ==
    << <<"j","a","n">>, <<"f","e","b">>, <<"m","a","r">>, <<"a","p","r">>,
       <<"m","a","y">>, <<"j","u","n">>, <<"j","u","l">>, <<"a","u","g">>,
       <<"s","e","p">>, <<"s","e","p","t">>, <<"o","c","t">>, <<"n","o","v">>,
       <<"d","e","c">> >>
EndTokens ==
    << <<"p","r","e","s","e","n","t">>, <<"c","u","r","r","e","n","t">> >> \o StartMonths

\* the first alternative of alts found at k of the lower-cased text, or 0.
\* What follows a month in the pattern starts with [a-z]*, so a later
\* alternative (Sept after Sep) matches only where the first one does.
FirstAlt(low, k, alts) ==
    LET hit == {n \in 1..Len(alts) : StartsAt(low, k, alts[n])}
    IN  IF hit = {} THEN 0 ELSE SetMin(hit)

\* (19|20)\d{2} at p
YearAt(s, p) ==
    /\ p >= 1 /\ p + 3 <= Len(s)
    /\ (s[p] = "1" /\ s[p + 1] = "9") \/ (s[p] = "2" /\ s[p + 1] = "0")
    /\ IsDigit(s[p + 2]) /\ IsDigit(s[p + 3])

\* \.? at p: the index after an optional full stop
SkipDot(s, p) == IF p <= Len(s) /\ s[p] = "." THEN p + 1 ELSE p

NoMatch == [matched |-> FALSE]

\* the first two lines of the pattern at k:
\* (start_month)[a-z]*\.?\s+(start_year); next is the index after the year
DateStartAt(s, k) ==
    LET m1 == FirstAlt(lower(s), k, StartMonths)
    IN  IF m1 = 0 THEN NoMatch
        ELSE LET p1 == k + Len(StartMonths[m1])
                 p3 == SkipDot(s, SkipLetters(s, p1))
                 p4 == SkipSpaces(s, p3)
             IN  IF p4 = p3 \/ ~YearAt(s, p4) THEN NoMatch
                 ELSE [start_month |-> SubSeq(s, k, p1 - 1),
                       start_year |-> SubSeq(s, p4, p4 + 3),
                       next |-> p4 + 4]

\* the last three lines of the pattern at p:
\* \s*[-\u2013]\s*(end_month)[a-z]*\.?\s*(end_year)?
DateEndAt(s, p) ==
    LET p6 == SkipSpaces(s, p)
    IN  IF ~(p6 <= Len(s) /\ IsDash(s[p6])) THEN NoMatch
        ELSE LET p8 == SkipSpaces(s, p6 + 1)
                 m2 == FirstAlt(lower(s), p8, EndTokens)
             IN  IF m2 = 0 THEN NoMatch
                 ELSE LET p9 == p8 + Len(EndTokens[m2])
                          p11 == SkipDot(s, SkipLetters(s, p9))
                          p12 == SkipSpaces(s, p11)
                      IN  [end_month |-> SubSeq(s, p8, p9 - 1),
                           end_year |-> IF YearAt(s, p12)
                                        THEN SubSeq(s, p12, p12 + 3) ELSE None]

\* a DATE_RANGE_REGEX whose dash and end token are optional
DateMatchAtOptionalEnd(s, k) ==
    LET st == DateStartAt(s, k)
    IN  IF st = NoMatch THEN NoMatch
        ELSE LET en == DateEndAt(s, st.next)
             IN  [start_month |-> st.start_month, start_year |-> st.start_year,
                  end_month |-> IF en = NoMatch THEN None ELSE en.end_month,
                  end_year |-> IF en = NoMatch THEN None ELSE en.end_year]
\* DATE_RANGE_REGEX matched at k: the groups, or NoMatch
DateMatchAt(s, k) ==
    LET st == DateStartAt(s, k)
    IN  IF st = NoMatch THEN NoMatch
        ELSE LET en == DateEndAt(s, st.next)
             IN  IF en = NoMatch THEN NoMatch
                 ELSE [start_month |-> st.start_month, start_year |-> st.start_year,
                       end_month |-> en.end_month, end_year |-> en.end_year]

\* DATE_RANGE_REGEX.search(block): the leftmost match
DateSearch(s) ==
    LET at == {k \in 1..Len(s) : DateMatchAt(s, k) # NoMatch}
    IN  IF at = {} THEN NoMatch ELSE DateMatchAt(s, SetMin(at))

\* [l.strip() for l in block.split("\n") if l.strip()]
StrippedLines(block) ==
    LET ls == split(block, NL)
        trimmed == [k \in 1..Len(ls) |-> strip(ls[k])]
        NonEmpty(l) == l # <<>>
    IN  SelectSeq(trimmed, NonEmpty)

\* the header line: split on the first " - " into title and company
HeaderSep == <<SP, "-", SP>>
ParseHeader(header_line) ==
    LET k == Find(header_line, HeaderSep)
    IN  IF k # 0
        THEN [job_title |-> strip(SubSeq(header_line, 1, k - 1)),
              company |-> strip(SubSeq(header_line, k + Len(HeaderSep), Len(header_line)))]
        ELSE [job_title |-> header_line, company |-> None]

\* a description that keeps the header line
DescriptionWithHeader(ls) == IF Len(ls) > 1 THEN join(ls, <<NL>>) ELSE None
\* "\n".join(lines[1:]) if len(lines) > 1, else None
Description(ls) == IF Len(ls) > 1 THEN join(Tail(ls), <<NL>>) ELSE None

\* the job dict built from one non-empty, stripped block
ParseJob(block) ==
    LET ls == StrippedLines(block)
        hd == ParseHeader(ls[1])
        m == DateSearch(block)
    IN  [job_title |-> hd.job_title,
         company |-> hd.company,
         start_date |-> IF m = NoMatch THEN None
                        ELSE m.start_month \o <<SP>> \o m.start_year,
         end_date |-> IF m = NoMatch THEN None
                      ELSE IF m.end_year # None /\ m.end_year # <<>>
                           THEN m.end_month \o <<SP>> \o m.end_year
                           ELSE m.end_month,
         description |-> Description(ls),
         raw |-> block]

\* the two "continue" tests of the loop body
BlockSkipped(block) == strip(block) = <<>> \/ StrippedLines(strip(block)) = <<>>

BlockSep == <<NL, NL>>
RECURSIVE ParseBlocks(_, _)
ParseBlocks(bs, k) ==
    IF k > Len(bs) THEN <<>>
    ELSE (IF BlockSkipped(bs[k]) THEN <<>> ELSE <<ParseJob(strip(bs[k]))>>)
         \o ParseBlocks(bs, k + 1)

\* parse_experience_section(section_text) as a function of its argument
parse_experience_section(t) == ParseBlocks(SplitStr(t, BlockSep), 1)

----------------------------------------------------------------------------
(* parser/extractor.py: parse_resume *)

\* Python truthiness of an Optional[str]: None and "" are false
Truthy(v) == v # None /\ v # <<>>

\* sections.get("work experience") or sections.get("professional experience")
\*   or sections.get("experience", "")
ExperienceText(secs) ==
    LET w == DictGet(secs, WorkExperience, None)
        p == DictGet(secs, ProfessionalExperience, None)
    IN  IF Truthy(w) THEN w
        ELSE IF Truthy(p) THEN p
        ELSE DictGet(secs, Experience, <<>>)

\* the result dict, with the entries this model follows: phone, experience
\* and raw_sections (name, email, summary, skills and education are not)
ResumeRecord(cl, secs, exp_text) ==
    [phone |-> extract_phone(cl),
     experience |-> IF Truthy(exp_text) THEN parse_experience_section(exp_text) ELSE <<>>,
     raw_sections |-> secs]

----------------------------------------------------------------------------
(* parser/text_reader.py: extract_text *)

DotPdf == <<".", "p", "d", "f">>
DotDocx == <<".", "d", "o", "c", "x">>

\* "\n".join(text_chunks) over the pages fitz yields
extract_text_from_pdf(chunks) == join(chunks, <<NL>>)
\* "\n".join(lines) over the paragraphs python-docx yields
extract_text_from_docx(chunks) == join(chunks, <<NL>>)

\* an extract_text that compares the suffix without lower-casing the name
extract_text_case_sensitive(file_name, chunks) ==
    IF endswith(file_name, DotPdf)
    THEN [raised |-> FALSE, text |-> extract_text_from_pdf(chunks)]
    ELSE IF endswith(file_name, DotDocx)
    THEN [raised |-> FALSE, text |-> extract_text_from_docx(chunks)]
    ELSE [raised |-> TRUE, text |-> None]
\* extract_text(file_name, file_bytes): the text, or the ValueError raised.
\* The file's bytes are given by the chunks of text the library reads from them.
extract_text(file_name, chunks) ==
    LET file_name_lower == lower(file_name)
    IN  IF endswith(file_name_lower, DotPdf)
        THEN [raised |-> FALSE, text |-> extract_text_from_pdf(chunks)]
        ELSE IF endswith(file_name_lower, DotDocx)
        THEN [raised |-> FALSE, text |-> extract_text_from_docx(chunks)]
        ELSE [raised |-> TRUE, text |-> None]

----------------------------------------------------------------------------
(* app.py: make_flat_row *)

\* str(None) inside an f-string
Str(v) == IF v = None THEN <<"N", "o", "n", "e">> ELSE v

\* the header list of one experience entry, joined with " " and stripped
ExpPart(x) ==
    LET title == IF Truthy(x.job_title) THEN <<x.job_title>> ELSE <<>>
        comp == IF Truthy(x.company) THEN <<<<"@", SP>> \o x.company>> ELSE <<>>
        dates == IF Truthy(x.start_date) \/ Truthy(x.end_date)
                 THEN << <<"(">> \o Str(x.start_date) \o <<SP, "-", SP>>
                         \o Str(x.end_date) \o <<")">> >>
                 ELSE <<>>
    IN  strip(join(title \o comp \o dates, <<SP>>))

\* make_flat_row(file_name, parsed), with the columns this model follows
make_flat_row(file_name, parsed) ==
    [file_name |-> file_name,
     phone |-> parsed.phone,
     experience |-> join([n \in 1..Len(parsed.experience) |-> ExpPart(parsed.experience[n])],
                         <<SP, "|", SP>>)]

----------------------------------------------------------------------------
(* Inputs *)

\* all sequences over S of length lo..hi
SeqsOf(S, lo, hi) == UNION {[1..n -> S] : n \in lo..hi}

Idle == <<>>

MaxLines == 4
SplitLineChoices ==
    { <<>>, <<SP>>, <<"a">>, <<SP, "b">>,
      <<"S","k","i","l","l","s">>,
      Experience \o <<":">>,
      Skills \o <<SP, ":">> }
SplitTexts == {join(ls, <<NL>>) : ls \in SeqsOf(SplitLineChoices, 1, MaxLines)}

----------------------------------------------------------------------------
(* split_into_sections, one loop iteration per step *)

InitSplit ==
    /\ op = "split_into_sections"
    /\ text \in SplitTexts
    /\ lines = split(text, NL)
    /\ i = 1
    /\ sections = <<>>
    /\ current_section = Header
    /\ buffer = <<>>
    /\ pc = "loop"
    /\ result = None
    /\ blocks = Idle /\ entries = Idle /\ cleaned = Idle /\ experience_text = Idle
    /\ uploaded_files = Idle /\ parsed_results = Idle /\ flat_rows = Idle /\ errors = Idle

SplitLocalsNow == [sections |-> sections, current_section |-> current_section, buffer |-> buffer]

\* the loop body on a heading line: flush, switch section, reset the buffer
SplitHeading ==
    /\ op = "split_into_sections" /\ pc = "loop" /\ i <= Len(lines)
    /\ IsHeading(lines[i])
    /\ LET st == SplitLine(SplitLocalsNow, lines[i])
       IN  /\ sections' = st.sections
           /\ current_section' = st.current_section
           /\ buffer' = st.buffer
    /\ i' = i + 1
    /\ UNCHANGED <<op, pc, text, lines, result, expVars, resumeVars, mainVars>>

\* the loop body on any other line: buffer.append(line)
SplitAppend ==
    /\ op = "split_into_sections" /\ pc = "loop" /\ i <= Len(lines)
    /\ ~IsHeading(lines[i])
    /\ LET st == SplitLine(SplitLocalsNow, lines[i])
       IN  /\ sections' = st.sections
           /\ current_section' = st.current_section
           /\ buffer' = st.buffer
    /\ i' = i + 1
    /\ UNCHANGED <<op, pc, text, lines, result, expVars, resumeVars, mainVars>>

\* after the loop: the final flush_buffer and return sections
SplitReturn ==
    /\ op = "split_into_sections" /\ pc = "loop" /\ i > Len(lines)
    /\ sections' = flush_buffer(sections, current_section, buffer)
    /\ result' = sections'
    /\ pc' = "done"
    /\ UNCHANGED <<op, text, lines, i, current_section, buffer, expVars, resumeVars, mainVars>>

NextSplit == SplitHeading \/ SplitAppend \/ SplitReturn
SpecSplit == InitSplit /\ [][NextSplit]_vars

----------------------------------------------------------------------------
(* clean_text, one statement per step *)

MaxCleanLen == 6
CleanChars == {"a", NL, SP, CR, TAB}
CleanTexts == SeqsOf(CleanChars, 0, MaxCleanLen)

InitClean ==
    /\ op = "clean_text"
    /\ text \in CleanTexts
    /\ pc = "replace_cr"
    /\ result = None
    /\ lines = Idle /\ i = 0 /\ sections = Idle /\ current_section = Idle /\ buffer = Idle
    /\ blocks = Idle /\ entries = Idle /\ cleaned = Idle /\ experience_text = Idle
    /\ uploaded_files = Idle /\ parsed_results = Idle /\ flat_rows = Idle /\ errors = Idle

CleanReplaceCR ==
    /\ op = "clean_text" /\ pc = "replace_cr"
    /\ text' = ReplaceCR(text)
    /\ pc' = "collapse_newlines"
    /\ UNCHANGED <<op, result, splitVars, expVars, resumeVars, mainVars>>

CleanCollapseNewlines ==
    /\ op = "clean_text" /\ pc = "collapse_newlines"
    /\ text' = CollapseNewlines(text)
    /\ pc' = "collapse_spaces"
    /\ UNCHANGED <<op, result, splitVars, expVars, resumeVars, mainVars>>

CleanCollapseSpaces ==
    /\ op = "clean_text" /\ pc = "collapse_spaces"
    /\ text' = CollapseSpaces(text)
    /\ pc' = "strip"
    /\ UNCHANGED <<op, result, splitVars, expVars, resumeVars, mainVars>>

CleanReturn ==
    /\ op = "clean_text" /\ pc = "strip"
    /\ result' = strip(text)
    /\ pc' = "done"
    /\ UNCHANGED <<op, text, splitVars, expVars, resumeVars, mainVars>>

NextClean == CleanReplaceCR \/ CleanCollapseNewlines \/ CleanCollapseSpaces \/ CleanReturn
SpecClean == InitClean /\ [][NextClean]_vars

----------------------------------------------------------------------------
(* Claims about clean_text (SpecClean) *)

CleanDone == op = "clean_text" /\ pc = "done"

\* a blank line: empty, or only spaces and tabs
IsBlankLine(l) == \A k \in 1..Len(l) : IsBlankChar(l[k])

\* C8 as stated: no two consecutive lines of clean_text's output are both blank.
C8_AtMostOneBlankLine ==
    CleanDone =>
        LET out == split(result, NL)
        IN  \A k \in 1..(Len(out) - 1) : ~(IsBlankLine(out[k]) /\ IsBlankLine(out[k + 1]))

----------------------------------------------------------------------------
(* extract_phone *)

MaxPhoneCore == 9
PhoneCoreChars == {"7", "-", SP}
PhonePrefixes == {<<>>, <<"+">>, <<"x">>}
PhoneSuffixes == {<<>>, <<"x">>}
PhoneTexts ==
    {pre \o core \o post :
        pre \in PhonePrefixes, core \in SeqsOf(PhoneCoreChars, 0, MaxPhoneCore),
        post \in PhoneSuffixes}

InitPhone ==
    /\ op = "extract_phone"
    /\ text \in PhoneTexts
    /\ pc = "search"
    /\ result = None
    /\ lines = Idle /\ i = 0 /\ sections = Idle /\ current_section = Idle /\ buffer = Idle
    /\ blocks = Idle /\ entries = Idle /\ cleaned = Idle /\ experience_text = Idle
    /\ uploaded_files = Idle /\ parsed_results = Idle /\ flat_rows = Idle /\ errors = Idle

ExtractPhone ==
    /\ op = "extract_phone" /\ pc = "search"
    /\ result' = extract_phone(text)
    /\ pc' = "done"
    /\ UNCHANGED <<op, text, splitVars, expVars, resumeVars, mainVars>>

NextPhone == ExtractPhone
SpecPhone == InitPhone /\ [][NextPhone]_vars

----------------------------------------------------------------------------
(* Claims about extract_phone (SpecPhone) *)

PhoneDone == op = "extract_phone" /\ pc = "done"

CountDigits(s) == Cardinality({k \in 1..Len(s) : IsDigit(s[k])})
\* digits, spaces and hyphens after an optional leading "+"
PhoneAlphabet(s) ==
    \A k \in 1..Len(s) : IsDigit(s[k]) \/ s[k] = SP \/ s[k] = "-" \/ (k = 1 /\ s[k] = "+")
\* s[a..b] starts and ends with a digit, has at least 9 characters and
\* only digits, spaces and hyphens in between
IsPhoneRun(s, a, b) ==
    /\ b - a + 1 >= 9
    /\ IsDigit(s[a]) /\ IsDigit(s[b])
    /\ \A k \in a..b : IsDigit(s[k]) \/ s[k] = SP \/ s[k] = "-"

\* C7 as stated: a returned value has only digits, spaces and hyphens after
\* an optional "+", and at least 9 digits.
C7_AtLeastNineDigits ==
    (PhoneDone /\ result # None) => PhoneAlphabet(result) /\ CountDigits(result) >= 9

\* C7 amended: a returned value has only digits, spaces and hyphens after an
\* optional "+", starts (after the "+") and ends with a digit and has at
\* least 9 CHARACTERS after the "+" (so at least 2 digits, not 9); a text
\* with no such run of at least 9 characters yields None.
C7_AtLeastNineCharacters ==
    PhoneDone =>
        /\ result # None =>
              LET body == IF result[1] = "+" THEN Tail(result) ELSE result
              IN  PhoneAlphabet(result) /\ IsPhoneRun(body, 1, Len(body))
        /\ result = None =>
              ~\E a \in 1..Len(text) : \E b \in a..Len(text) : IsPhoneRun(text, a, b)

\* a 9-character match that holds only two digits
C7_Witness ==
    /\ PhoneDone /\ result # None
    /\ Len(result) = 9
    /\ CountDigits(result) = 2

----------------------------------------------------------------------------
(* parse_experience_section, one block per step *)

ExampleBlock ==
    <<"S","o","f","t","w","a","r","e",SP,"E","n","g","i","n","e","e","r",SP,"-",SP,
      "A","c","m","e",SP,"C","o","r","p",NL,
      "J","a","n",SP,"2","0","1","9",SP,"-",SP,"P","r","e","s","e","n","t",NL,
      "B","u","i","l","t",SP,"t","h","i","n","g","s",".">>

MaxExpFrags == 4
ExpFrags ==
    { <<"J","a","n",SP,"2","0","1","9">>, <<SP,"-",SP>>, <<"P","r","e","s","e","n","t">>,
      <<"M","a","r">>, <<SP,"2","0","2","0">>, <<"D","e","v">>, <<NL>>, <<EnDash>> }
RECURSIVE Concat(_)
Concat(ss) == IF ss = <<>> THEN <<>> ELSE ss[1] \o Concat(Tail(ss))
ExpTexts == {Concat(fs) : fs \in SeqsOf(ExpFrags, 0, MaxExpFrags)} \cup {ExampleBlock}

InitExp ==
    /\ op = "parse_experience_section"
    /\ text \in ExpTexts
    /\ blocks = SplitStr(text, BlockSep)
    /\ i = 1
    /\ entries = <<>>
    /\ pc = "loop"
    /\ result = None
    /\ lines = Idle /\ sections = Idle /\ current_section = Idle /\ buffer = Idle
    /\ cleaned = Idle /\ experience_text = Idle
    /\ uploaded_files = Idle /\ parsed_results = Idle /\ flat_rows = Idle /\ errors = Idle

\* an empty block: continue
ExpSkipBlock ==
    /\ op = "parse_experience_section" /\ pc = "loop" /\ i <= Len(blocks)
    /\ BlockSkipped(blocks[i])
    /\ i' = i + 1
    /\ UNCHANGED <<op, pc, text, result, lines, sections, current_section, buffer,
                   expVars, resumeVars, mainVars>>

\* any other block: build the job and append it
ExpAppendJob ==
    /\ op = "parse_experience_section" /\ pc = "loop" /\ i <= Len(blocks)
    /\ ~BlockSkipped(blocks[i])
    /\ entries' = Append(entries, ParseJob(strip(blocks[i])))
    /\ i' = i + 1
    /\ UNCHANGED <<op, pc, text, result, lines, sections, current_section, buffer,
                   blocks, resumeVars, mainVars>>

ExpReturn ==
    /\ op = "parse_experience_section" /\ pc = "loop" /\ i > Len(blocks)
    /\ result' = entries
    /\ pc' = "done"
    /\ UNCHANGED <<op, text, splitVars, expVars, resumeVars, mainVars>>

NextExp == ExpSkipBlock \/ ExpAppendJob \/ ExpReturn
SpecExp == InitExp /\ [][NextExp]_vars

----------------------------------------------------------------------------
(* Claims about parse_experience_section (SpecExp) *)

ExpDone == op = "parse_experience_section" /\ pc = "done"

SoftwareEngineer == <<"S","o","f","t","w","a","r","e",SP,"E","n","g","i","n","e","e","r">>
AcmeCorp == <<"A","c","m","e",SP,"C","o","r","p">>
Jan2019 == <<"J","a","n",SP,"2","0","1","9">>
Present == <<"P","r","e","s","e","n","t">>
BuiltThings == <<"B","u","i","l","t",SP,"t","h","i","n","g","s",".">>
DateLine == <<"J","a","n",SP,"2","0","1","9",SP,"-",SP,"P","r","e","s","e","n","t">>

ExampleFields(e) ==
    /\ e.job_title = SoftwareEngineer
    /\ e.company = AcmeCorp
    /\ e.start_date = Jan2019
    /\ e.end_date = Present

\* C4 as stated: the example block yields one entry with the four header and
\* date fields and description "Built things.".
C4_ExampleDescriptionOnly ==
    (ExpDone /\ text = ExampleBlock) =>
        /\ Len(result) = 1
        /\ ExampleFields(result[1])
        /\ result[1].description = BuiltThings

\* C4 amended: the example block yields one entry with the same four fields
\* and description "Jan 2019 - Present\nBuilt things.": every line after the
\* header line, the date-range line included.
C4_ExampleDescriptionRest ==
    (ExpDone /\ text = ExampleBlock) =>
        /\ Len(result) = 1
        /\ ExampleFields(result[1])
        /\ result[1].description = DateLine \o <<NL>> \o BuiltThings

C4_Witness ==
    /\ ExpDone /\ text = ExampleBlock
    /\ Len(result) = 1
    /\ result[1].raw = ExampleBlock

\* a "<MonthName> <4-digit year>" token somewhere in s
HasMonthYear(s) == \E k \in 1..Len(s) : DateStartAt(s, k) # NoMatch
HasDash(s) == \E k \in 1..Len(s) : IsDash(s[k])
\* "Mon YYYY": three letters, a space, a year
IsMonthYear(d) ==
    /\ Len(d) = 8
    /\ FirstAlt(lower(d), 1, StartMonths) # 0
    /\ d[4] = SP
    /\ YearAt(d, 5)

\* C5 as stated: the end of the range is optional, so every entry whose
\* block holds a "<MonthName> <year>" token has start_date set.
C5_EndOptional ==
    ExpDone => \A n \in 1..Len(result) :
        HasMonthYear(result[n].raw) => result[n].start_date # None

\* C5 amended: the end of the range is required.  start_date and end_date
\* are set together or not at all; start_date, when set, is a "Mon YYYY"
\* and the block holds a month-year token and a dash; a block without a dash
\* or en dash (in particular "Jan 2019" alone) leaves start_date unset.
C5_EndRequired ==
    ExpDone => \A n \in 1..Len(result) :
        LET e == result[n]
        IN  /\ (e.start_date = None) <=> (e.end_date = None)
            /\ e.start_date # None =>
                  /\ IsMonthYear(e.start_date)
                  /\ HasMonthYear(e.raw) /\ HasDash(e.raw)
            /\ ~HasDash(e.raw) => e.start_date = None

\* a block with a month-year token and no range: no start_date
C5_Witness ==
    /\ ExpDone
    /\ \E n \in 1..Len(result) :
          /\ HasMonthYear(result[n].raw)
          /\ ~HasDash(result[n].raw)
          /\ result[n].start_date = None
          /\ result[n].end_date = None

\* C6 as stated: end_date is unset, a "Month Year", or exactly the literal
\* Present / Current (in the text's casing).
C6_EndDateShape ==
    ExpDone => \A n \in 1..Len(result) :
        LET d == result[n].end_date
        IN  \/ d = None
            \/ IsMonthYear(d)
            \/ lower(d) \in {EndTokens[1], EndTokens[2]}

----------------------------------------------------------------------------
(* parse_resume, one statement per step.  main runs the same steps for *)
(* each file it could read, and gets the record back in result.       *)

MaxResumeLines == 4
ResumeLineChoices ==
    { <<>>, <<"x">>, WorkExperience, ProfessionalExperience, Experience \o <<":">> }
ResumeTexts == {join(ls, <<NL>>) : ls \in SeqsOf(ResumeLineChoices, 1, MaxResumeLines)}

InitResume ==
    /\ op = "parse_resume"
    /\ text \in ResumeTexts
    /\ pc = "clean"
    /\ cleaned = None
    /\ sections = <<>>
    /\ experience_text = None
    /\ result = None
    /\ lines = Idle /\ i = 0 /\ current_section = Idle /\ buffer = Idle
    /\ blocks = Idle /\ entries = Idle
    /\ uploaded_files = Idle /\ parsed_results = Idle /\ flat_rows = Idle /\ errors = Idle

ResumeClean ==
    /\ pc = "clean"
    /\ cleaned' = clean_text(text)
    /\ pc' = "split"
    /\ UNCHANGED <<op, text, result, splitVars, expVars, experience_text, mainVars>>

ResumeSplit ==
    /\ pc = "split"
    /\ sections' = split_into_sections(cleaned)
    /\ pc' = "resolve"
    /\ UNCHANGED <<op, text, result, lines, i, current_section, buffer, expVars,
                   resumeVars, mainVars>>

ResumeResolve ==
    /\ pc = "resolve"
    /\ experience_text' = ExperienceText(sections)
    /\ pc' = "build"
    /\ UNCHANGED <<op, text, result, splitVars, expVars, cleaned, mainVars>>

ResumeReturn ==
    /\ pc = "build"
    /\ result' = ResumeRecord(cleaned, sections, experience_text)
    /\ pc' = IF op = "main" THEN "append" ELSE "done"
    /\ UNCHANGED <<op, text, splitVars, expVars, resumeVars, mainVars>>

NextResume == ResumeClean \/ ResumeSplit \/ ResumeResolve \/ ResumeReturn
SpecResume == InitResume /\ [][NextResume]_vars

----------------------------------------------------------------------------
(* Claims about parse_resume (SpecResume) *)

ResumeDone == op = "parse_resume" /\ pc = "done"

\* the highest-priority experience key present in the section map, or None
PresentExperienceKey ==
    IF DictHas(sections, WorkExperience) THEN WorkExperience
    ELSE IF DictHas(sections, ProfessionalExperience) THEN ProfessionalExperience
    ELSE IF DictHas(sections, Experience) THEN Experience
    ELSE None

\* C9 as stated: the experience entries are parsed from the text of the
\* highest-priority key PRESENT in the section map (work experience, else
\* professional experience, else experience), and are empty if none is.
C9_FallbackOnPresence ==
    ResumeDone =>
        IF PresentExperienceKey = None THEN result.experience = <<>>
        ELSE LET chosen == DictGet(sections, PresentExperienceKey, None)
             IN  /\ experience_text = chosen
                 /\ result.experience =
                        (IF chosen = <<>> THEN <<>> ELSE parse_experience_section(chosen))

----------------------------------------------------------------------------
(* main: the loop over the uploaded files, one file per step *)

MaxFiles == 3
\* an uploaded file: <<file.name, the chunks of text its bytes decode to>>
FileChoices ==
    { << <<"a">> \o DotPdf, <<<<"x">>>> >>,
      << <<"b", ".", "P", "D", "F">>,
         << Experience, <<"D", "e", "v", SP, "-", SP, "X">>,
            <<"J", "a", "n", SP, "2", "0", "1", "9", "-", "M", "a", "r">> >> >>,
      << <<"c", ".", "D", "o", "c", "x">>, << <<"y">>, <<"z">> >> >>,
      << <<"d", ".", "t", "x", "t">>, <<<<"x">>>> >>,
      << <<"p", "d", "f">>, <<<<"x">>>> >> }
UploadLists == SeqsOf(FileChoices, 0, MaxFiles)

InitMain ==
    /\ op = "main"
    /\ uploaded_files \in UploadLists
    /\ parsed_results = <<>>
    /\ flat_rows = <<>>
    /\ errors = <<>>
    /\ i = 1
    /\ pc = "loop"
    /\ text = None
    /\ cleaned = None
    /\ sections = <<>>
    /\ experience_text = None
    /\ result = None
    /\ lines = Idle /\ current_section = Idle /\ buffer = Idle
    /\ blocks = Idle /\ entries = Idle

\* if not uploaded_files: st.info(...); return
MainNoFiles ==
    /\ op = "main" /\ pc = "loop" /\ uploaded_files = <<>>
    /\ pc' = "done"
    /\ UNCHANGED <<op, text, result, splitVars, expVars, resumeVars, mainVars>>

\* extract_text raises: st.error and continue
MainSkipFile ==
    /\ op = "main" /\ pc = "loop" /\ i <= Len(uploaded_files)
    /\ extract_text(uploaded_files[i][1], uploaded_files[i][2]).raised
    /\ errors' = Append(errors, uploaded_files[i][1])
    /\ i' = i + 1
    /\ UNCHANGED <<op, pc, text, result, lines, sections, current_section, buffer,
                   expVars, resumeVars, uploaded_files, parsed_results, flat_rows>>

\* extract_text returns the text: parse_resume(text) is called
MainReadFile ==
    /\ op = "main" /\ pc = "loop" /\ i <= Len(uploaded_files)
    /\ LET got == extract_text(uploaded_files[i][1], uploaded_files[i][2])
       IN  /\ ~got.raised
           /\ text' = got.text
    /\ pc' = "clean"
    /\ UNCHANGED <<op, result, splitVars, expVars, resumeVars, mainVars>>

\* parse_resume has returned: append to parsed_results and to flat_rows
MainAppend ==
    /\ op = "main" /\ pc = "append"
    /\ parsed_results' = Append(parsed_results,
                                [file_name |-> uploaded_files[i][1], parsed |-> result])
    /\ flat_rows' = Append(flat_rows, make_flat_row(uploaded_files[i][1], result))
    /\ i' = i + 1
    /\ pc' = "loop"
    /\ UNCHANGED <<op, text, result, lines, sections, current_section, buffer,
                   expVars, resumeVars, uploaded_files, errors>>

\* after the loop: the three tabs are rendered from parsed_results and flat_rows
MainRender ==
    /\ op = "main" /\ pc = "loop" /\ uploaded_files # <<>> /\ i > Len(uploaded_files)
    /\ pc' = "done"
    /\ UNCHANGED <<op, text, result, splitVars, expVars, resumeVars, mainVars>>

NextMain ==
    \/ MainNoFiles \/ MainSkipFile \/ MainReadFile
    \/ ResumeClean \/ ResumeSplit \/ ResumeResolve \/ ResumeReturn
    \/ MainAppend \/ MainRender
SpecMain == InitMain /\ [][NextMain]_vars

----------------------------------------------------------------------------
(* Claims about main (SpecMain) *)

MainDone == op = "main" /\ pc = "done"

\* the name ends in .pdf or .docx, case-insensitively
SupportedName(name) == endswith(lower(name), DotPdf) \/ endswith(lower(name), DotDocx)
UploadedNames == [n \in 1..Len(uploaded_files) |-> uploaded_files[n][1]]
SupportedNames == SelectSeq(UploadedNames, SupportedName)
UnsupportedNames ==
    LET Unsupported(name) == ~SupportedName(name)
    IN  SelectSeq(UploadedNames, Unsupported)

----------------------------------------------------------------------------
(* Claims about split_into_sections (SpecSplit) *)

SplitDone == op = "split_into_sections" /\ pc = "done"

\* the lines on which heading h occurs, and the block of lines after line k
HeadPos(h) == {k \in 1..Len(lines) : IsHeading(lines[k]) /\ HeadingName(lines[k]) = h}
NextHead(k) ==
    LET later == {j \in (k + 1)..Len(lines) : IsHeading(lines[j])}
    IN  IF later = {} THEN Len(lines) + 1 ELSE SetMin(later)
BlockAfter(k) == SubSeq(lines, k + 1, NextHead(k) - 1)
BlockText(k) == strip(join(BlockAfter(k), <<NL>>))
Recurring == {h \in SectionNames : Cardinality(HeadPos(h)) >= 2}

\* C1 as stated (its "never an earlier occurrence" half): when a heading
\* recurs, a value stored under its key is the trimmed block after the LAST
\* occurrence, wherever that occurrence stands.
C1_LastWriteWins ==
    SplitDone =>
        \A h \in Recurring :
            DictHas(result, h) => DictGet(result, h, None) = BlockText(SetMax(HeadPos(h)))

\* C1 amended: when a heading recurs, its key holds the trimmed block after
\* the last occurrence that is followed by at least one line before the next
\* heading or the end of the text; an occurrence with no line after it writes
\* nothing, and if no occurrence has a line the key is absent.
C1_LastNonEmptyBlockWins ==
    SplitDone =>
        \A h \in Recurring :
            LET wrote == {k \in HeadPos(h) : BlockAfter(k) # <<>>}
            IN  IF wrote = {} THEN ~DictHas(result, h)
                ELSE /\ DictHas(result, h)
                     /\ DictGet(result, h, None) = BlockText(SetMax(wrote))

\* a heading recurs, its last occurrence is the last line, and the key holds
\* the (different) text of an earlier block
C1_Witness ==
    /\ SplitDone
    /\ \E h \in Recurring :
          /\ SetMax(HeadPos(h)) = Len(lines)
          /\ DictHas(result, h)
          /\ \E k \in HeadPos(h) :
                /\ k < Len(lines)
                /\ BlockText(k) # <<>>
                /\ DictGet(result, h, None) = BlockText(k)

\* C2 as stated: every value of the returned map is non-empty after trimming.
C2_NoEmptyValues ==
    SplitDone => \A n \in 1..Len(result) : strip(result[n][2]) # <<>>

\* the non-blank lines of a list of lines, each trimmed
ContentLines(ls) ==
    LET trimmed == [k \in 1..Len(ls) |-> strip(ls[k])]
        NonBlank(l) == l # <<>>
    IN  SelectSeq(trimmed, NonBlank)
NonHeadingLines ==
    LET NotHeading(l) == ~IsHeading(l)
    IN  SelectSeq(lines, NotHeading)
RejoinedLines ==
    split(join([n \in 1..Len(result) |-> result[n][2]], <<NL>>), NL)

\* C3 as stated, read up to trimming: the values of the map, rejoined in
\* order, hold every non-blank non-heading line exactly once and in order.
C3_RejoinRecoversContent ==
    SplitDone => ContentLines(RejoinedLines) = ContentLines(NonHeadingLines)

\* C3 amended: the same, for texts in which no recognized heading occurs
\* more than once.
C3_RejoinRecoversContentNoRecurrence ==
    (SplitDone /\ Recurring = {}) =>
        ContentLines(RejoinedLines) = ContentLines(NonHeadingLines)

\* two different sections with content, no heading recurring
C3_Witness ==
    /\ SplitDone /\ Recurring = {}
    /\ Len(result) >= 2
    /\ Len(ContentLines(NonHeadingLines)) >= 2
    /\ \E k \in 1..Len(lines) : IsHeading(lines[k])

====
